---- MODULE Spec2Model ----
(***************************************************************************)
(* State-machine model of cargo-screeps' build stage (build.rs): the       *)
(* `check` and `build` entry points, the artifact scan of the cargo output *)
(* directory, and `process_js`, which strips the browser bootstrap that    *)
(* `cargo web` generates around `__initialize`.                            *)
(*                                                                         *)
(* Text is a sequence of characters, one string each; a file system is a   *)
(* function from paths to file contents. Calls into the file system are    *)
(* taken to succeed; the toolchain process may fail to start or exit with  *)
(* any status.                                                             *)
(***************************************************************************)
EXTENDS Integers, Sequences, FiniteSets

\* ------------------------------------------------------------------------
\* Characters and small helpers

\* A text is a sequence of characters. An ASCII character is the string of
\* that one character; every other character is the string of its code
\* point, as in "U+1680", so that a text reads the same in every locale.

\* The characters the regex class \s matches (the Unicode White_Space
\* property): space, line feed, tab, carriage return, form feed, U+000B,
\* and the nineteen that are not ASCII.
Whitespace ==
    {" ", "\n", "\t", "\r", "\f", "",
     "U+0085", "U+00A0", "U+1680",
     "U+2000", "U+2001", "U+2002", "U+2003", "U+2004", "U+2005",
     "U+2006", "U+2007", "U+2008", "U+2009", "U+200A",
     "U+2028", "U+2029", "U+202F", "U+205F", "U+3000"}

\* The characters the class [A-Za-z0-9_] matches.
IdChars ==
    {"a","b","c","d","e","f","g","h","i","j","k","l","m",
     "n","o","p","q","r","s","t","u","v","w","x","y","z",
     "A","B","C","D","E","F","G","H","I","J","K","L","M",
     "N","O","P","Q","R","S","T","U","V","W","X","Y","Z",
     "0","1","2","3","4","5","6","7","8","9","_"}

None == [kind |-> "None"]

Min(S) == CHOOSE x \in S : \A y \in S : x <= y
Max(S) == CHOOSE x \in S : \A y \in S : x >= y

\* Concatenation of the sequences ss[lo..hi], by halving.
RECURSIVE ConcatRange(_, _, _)
ConcatRange(ss, lo, hi) ==
    IF lo > hi THEN <<>>
    ELSE IF lo = hi THEN ss[lo]
    ELSE LET mid == (lo + hi) \div 2
         IN  ConcatRange(ss, lo, mid) \o ConcatRange(ss, mid + 1, hi)

Concat(ss) == ConcatRange(ss, 1, Len(ss))

\* str::contains: needle occurs in text as a contiguous substring.
Contains(text, needle) ==
    \E i \in 1..(Len(text) - Len(needle) + 1) :
        \A k \in 1..Len(needle) : text[i + k - 1] = needle[k]

\* ------------------------------------------------------------------------
\* Fixed texts of build.rs

SCREEPS_JS_INITIALIZE_CALL ==
    <<"\n">> \o    \* line 7
    <<"_","_","i","n","i","t","i","a","l","i","z","e","(","n","e","w"," ","W","e","b","A","s","s","e","m","b","l","y",".","M","o","d","u","l","e","(","r","e","q","u","i","r","e","(","'","c","o","m","p","i","l","e","d","'",")",")",","," ","f","a","l","s","e",")",";","\n">>    \* line 8

expected_prefix_template ==
    <<"\"","u","s","e"," ","s","t","r","i","c","t","\"",";","\n">> \o    \* line 118
    <<"\n">> \o    \* line 119
    <<"i","f","("," ","t","y","p","e","o","f"," ","R","u","s","t"," ","=","=","="," ","\"","u","n","d","e","f","i","n","e","d","\""," ",")"," ","{","\n">> \o    \* line 120
    <<" "," "," "," ","v","a","r"," ","R","u","s","t"," ","="," ","{","}",";","\n">> \o    \* line 121
    <<"}","\n">> \o    \* line 122
    <<"\n">> \o    \* line 123
    <<"(","f","u","n","c","t","i","o","n","("," ","r","o","o","t",","," ","f","a","c","t","o","r","y"," ",")"," ","{","\n">> \o    \* line 124
    <<" "," "," "," ","i","f","("," ","t","y","p","e","o","f"," ","d","e","f","i","n","e"," ","=","=","="," ","\"","f","u","n","c","t","i","o","n","\""," ","&","&"," ","d","e","f","i","n","e",".","a","m","d"," ",")"," ","{","\n">> \o    \* line 125
    <<" "," "," "," "," "," "," "," ","d","e","f","i","n","e","("," ","[","]",","," ","f","a","c","t","o","r","y"," ",")",";","\n">> \o    \* line 126
    <<" "," "," "," ","}"," ","e","l","s","e"," ","i","f","("," ","t","y","p","e","o","f"," ","m","o","d","u","l","e"," ","=","=","="," ","\"","o","b","j","e","c","t","\""," ","&","&"," ","m","o","d","u","l","e",".","e","x","p","o","r","t","s"," ",")"," ","{","\n">> \o    \* line 127
    <<" "," "," "," "," "," "," "," ","m","o","d","u","l","e",".","e","x","p","o","r","t","s"," ","="," ","f","a","c","t","o","r","y","(",")",";","\n">> \o    \* line 128
    <<" "," "," "," ","}"," ","e","l","s","e"," ","{","\n">> \o    \* line 129
    <<" "," "," "," "," "," "," "," ","R","u","s","t",".","X","X","X"," ","="," ","f","a","c","t","o","r","y","(",")",";","\n">> \o    \* line 130
    <<" "," "," "," ","}","\n">> \o    \* line 131
    <<"}","("," ","t","h","i","s",","," ","f","u","n","c","t","i","o","n","(",")"," ","{","\n">> \o    \* line 132
    <<" "," "," "," ">>    \* line 133

expected_suffix_template ==
    <<"\n">> \o    \* line 142
    <<"\n">> \o    \* line 143
    <<"\n">> \o    \* line 144
    <<" "," "," "," ","i","f","("," ","t","y","p","e","o","f"," ","w","i","n","d","o","w"," ","=","=","="," ","\"","u","n","d","e","f","i","n","e","d","\""," ",")"," ","{","\n">> \o    \* line 145
    <<" "," "," "," "," "," "," "," ","c","o","n","s","t"," ","f","s"," ","="," ","r","e","q","u","i","r","e","("," ","\"","f","s","\""," ",")",";","\n">> \o    \* line 146
    <<" "," "," "," "," "," "," "," ","c","o","n","s","t"," ","p","a","t","h"," ","="," ","r","e","q","u","i","r","e","("," ","\"","p","a","t","h","\""," ",")",";","\n">> \o    \* line 147
    <<" "," "," "," "," "," "," "," ","c","o","n","s","t"," ","w","a","s","m","_","p","a","t","h"," ","="," ","p","a","t","h",".","j","o","i","n","("," ","_","_","d","i","r","n","a","m","e",","," ","\"","X","X","X",".","w","a","s","m","\""," ",")",";","\n">> \o    \* line 148
    <<" "," "," "," "," "," "," "," ","c","o","n","s","t"," ","b","u","f","f","e","r"," ","="," ","f","s",".","r","e","a","d","F","i","l","e","S","y","n","c","("," ","w","a","s","m","_","p","a","t","h"," ",")",";","\n">> \o    \* line 149
    <<" "," "," "," "," "," "," "," ","c","o","n","s","t"," ","m","o","d"," ","="," ","n","e","w"," ","W","e","b","A","s","s","e","m","b","l","y",".","M","o","d","u","l","e","("," ","b","u","f","f","e","r"," ",")",";","\n">> \o    \* line 150
    <<"\n">> \o    \* line 151
    <<" "," "," "," "," "," "," "," ","r","e","t","u","r","n"," ","_","_","i","n","i","t","i","a","l","i","z","e","("," ","m","o","d",","," ","f","a","l","s","e"," ",")",";","\n">> \o    \* line 152
    <<" "," "," "," ","}"," ","e","l","s","e"," ","{","\n">> \o    \* line 153
    <<" "," "," "," "," "," "," "," ","r","e","t","u","r","n"," ","f","e","t","c","h","("," ","\"","X","X","X",".","w","a","s","m","\""," ",")","\n">> \o    \* line 154
    <<" "," "," "," "," "," "," "," "," "," "," "," ",".","t","h","e","n","("," ","r","e","s","p","o","n","s","e"," ","=",">"," ","r","e","s","p","o","n","s","e",".","a","r","r","a","y","B","u","f","f","e","r","(",")"," ",")","\n">> \o    \* line 155
    <<" "," "," "," "," "," "," "," "," "," "," "," ",".","t","h","e","n","("," ","b","y","t","e","s"," ","=",">"," ","W","e","b","A","s","s","e","m","b","l","y",".","c","o","m","p","i","l","e","("," ","b","y","t","e","s"," ",")"," ",")","\n">> \o    \* line 156
    <<" "," "," "," "," "," "," "," "," "," "," "," ",".","t","h","e","n","("," ","m","o","d"," ","=",">"," ","_","_","i","n","i","t","i","a","l","i","z","e","("," ","m","o","d",","," ","t","r","u","e"," ",")"," ",")",";","\n">> \o    \* line 157
    <<" "," "," "," ","}","\n">> \o    \* line 158
    <<"}",")",")",";","\n">>    \* line 159
\* The marker process_js looks for.
InitializeMarker == <<"_","_","i","n","i","t","i","a","l","i","z","e">>

\* The placeholder token of the templates.
Placeholder == <<"X","X","X">>

\* ------------------------------------------------------------------------
\* make_into_slightly_less_brittle_regex: template text -> regex.
\* A regex is a sequence of elements: [op |-> "lit", s |-> chars] matches
\* exactly s (regex::escape), [op |-> "ws"] is \s* and [op |-> "id"] is
\* [A-Za-z0-9_]*.

\* Number of consecutive "X" immediately before position p.
XsBefore(t, p) ==
    CHOOSE k \in 0..(p - 1) :
        /\ \A j \in 1..k : t[p - j] = "X"
        /\ (k = p - 1 \/ t[p - k - 1] # "X")

\* str::replace("XXX", ..) takes the leftmost non-overlapping occurrences.
PlaceholderAt(t, p) ==
    /\ p + 2 <= Len(t)
    /\ SubSeq(t, p, p + 2) = Placeholder
    /\ XsBefore(t, p) % 3 = 0

CharKind(t, p) ==
    IF t[p] \in Whitespace THEN "ws"
    ELSE IF \E q \in {p - 2, p - 1, p} : q >= 1 /\ PlaceholderAt(t, q) THEN "id"
    ELSE "lit"

\* The maximal runs of the template: a whitespace run (what \s+ matches),
\* one placeholder occurrence, or a run of literal characters.
Runs(t) ==
    LET kind   == [p \in 1..Len(t) |-> CharKind(t, p)]
        starts == {p \in 1..Len(t) :
                      p = 1 \/ kind[p] # kind[p - 1] \/ PlaceholderAt(t, p)}
        rank   == [p \in starts |-> Cardinality({q \in starts : q <= p})]
        n      == Cardinality(starts)
        at     == [k \in 1..n |-> CHOOSE p \in starts : rank[p] = k]
    IN  [k \in 1..n |->
            [kind |-> kind[at[k]],
             s    |-> SubSeq(t, at[k], IF k = n THEN Len(t) ELSE at[k + 1] - 1)]]

make_into_slightly_less_brittle_regex(input) ==
    LET runs == Runs(input)
    IN  [k \in DOMAIN runs |->
            IF runs[k].kind = "ws" THEN [op |-> "ws"]
            ELSE IF runs[k].kind = "id" THEN [op |-> "id"]
            ELSE [op |-> "lit", s |-> runs[k].s]]

ClassOf(e) == IF e.op = "ws" THEN Whitespace ELSE IdChars

\* Length of the run of characters of class C that starts after offset j.
RunAfter(C, text, j) ==
    CHOOSE m \in 0..(Len(text) - j) :
        /\ \A i \in 1..m : text[j + i] \in C
        /\ (j + m = Len(text) \/ text[j + m + 1] \notin C)

\* Length of the run of characters of class C that ends at offset k.
RunBefore(C, text, k) ==
    CHOOSE m \in 0..k :
        /\ \A i \in 0..(m - 1) : text[k - i] \in C
        /\ (m = k \/ text[k - m] \notin C)

\* A literal run with "." left unescaped: "." matches any character.
LitMatches_DotUnescaped(s, t) ==
    /\ Len(s) = Len(t)
    /\ \A i \in 1..Len(s) : s[i] = "." \/ s[i] = t[i]

\* regex::escape: every character of a literal run matches only itself.
LitMatches(s, t) == s = t

\* Offsets at which element e can end when it starts at an offset of J.
StepForward(e, text, J) ==
    IF e.op = "lit"
    THEN {j + Len(e.s) : j \in {i \in J : /\ i + Len(e.s) <= Len(text)
                                          /\ LitMatches(e.s, SubSeq(text, i + 1, i + Len(e.s)))}}
    ELSE UNION {{j + m : m \in 0..RunAfter(ClassOf(e), text, j)} : j \in J}

\* Offsets at which element e can start when it ends at an offset of K.
StepBackward(e, text, K) ==
    IF e.op = "lit"
    THEN {k - Len(e.s) : k \in {i \in K : /\ i - Len(e.s) >= 0
                                          /\ LitMatches(e.s, SubSeq(text, i - Len(e.s) + 1, i))}}
    ELSE UNION {{k - m : m \in 0..RunBefore(ClassOf(e), text, k)} : k \in K}

\* Offsets at which re[lo..hi] can end when it starts at an offset of J.
RECURSIVE EndsFrom(_, _, _, _, _)
EndsFrom(re, lo, hi, text, J) ==
    IF J = {} \/ lo > hi THEN J
    ELSE IF lo = hi THEN StepForward(re[lo], text, J)
    ELSE LET mid == (lo + hi) \div 2
         IN  EndsFrom(re, mid + 1, hi, text, EndsFrom(re, lo, mid, text, J))

\* Offsets at which re[lo..hi] can start when it ends at an offset of K.
RECURSIVE StartsTo(_, _, _, _, _)
StartsTo(re, lo, hi, text, K) ==
    IF K = {} \/ lo > hi THEN K
    ELSE IF lo = hi THEN StepBackward(re[lo], text, K)
    ELSE LET mid == (lo + hi) \div 2
         IN  StartsTo(re, lo, mid, text, StartsTo(re, mid + 1, hi, text, K))

\* Regex::find for "^re": the match starts at offset 0; every wildcard is
\* greedy and is followed by an element that cannot start with a character
\* of its class, so the match found is the longest one.
FindAnchoredStart(re, text) ==
    LET ends == EndsFrom(re, 1, Len(re), text, {0})
    IN  IF ends = {} THEN None
        ELSE [kind |-> "Some", start |-> 0, end |-> Max(ends)]

\* Regex::find for "re$" taking the rightmost start instead of the leftmost.
FindAnchoredEnd_Rightmost(re, text) ==
    LET starts == StartsTo(re, 1, Len(re), text, {Len(text)})
    IN  IF starts = {} THEN None
        ELSE [kind |-> "Some", start |-> Max(starts), end |-> Len(text)]

\* Regex::find for "re$": the match ends at the end of the text and is the
\* leftmost one.
FindAnchoredEnd(re, text) ==
    LET starts == StartsTo(re, 1, Len(re), text, {Len(text)})
    IN  IF starts = {} THEN None
        ELSE [kind |-> "Some", start |-> Min(starts), end |-> Len(text)]

expected_prefix == make_into_slightly_less_brittle_regex(expected_prefix_template)

expected_suffix == make_into_slightly_less_brittle_regex(expected_suffix_template)

prefix_match(input) == FindAnchoredStart(expected_prefix, input)

suffix_match(input) == FindAnchoredEnd(expected_suffix, input)

\* Line 189: &input[prefix_match.end()..suffix_match.start()]
initialize_function(input, a, b) == SubSeq(input, a.end + 1, b.start)

\* process_js: the text of main.js, an error, or a panic (the slice of
\* line 189 panics when it begins after its end).
process_js(file_name, input) ==
    LET a == prefix_match(input)
        b == suffix_match(input)
    IN  IF a = None \/ b = None
        THEN [kind |-> "Err", error |-> "unexpected JS prefix", file |-> file_name]
        ELSE IF ~Contains(input, InitializeMarker)
        THEN [kind |-> "Err", error |-> "does not include a '__initialize' function"]
        ELSE IF a.end > b.start
        THEN [kind |-> "Panic"]
        ELSE [kind |-> "Ok",
              text |-> initialize_function(input, a, b)
                        \o <<"\n">> \o SCREEPS_JS_INITIALIZE_CALL]

\* ------------------------------------------------------------------------
\* Generated loader scripts: the templates with each whitespace run and each
\* placeholder replaced, a text inserted between them, and optionally one
\* literal character altered.

MaxWs == 2
MaxId == 2

WsCycle ==
    <<" ", "\n", "\t", "\r", "\f", "",
      "U+0085", "U+00A0", "U+1680",
      "U+2000", "U+2001", "U+2002", "U+2003", "U+2004", "U+2005",
      "U+2006", "U+2007", "U+2008", "U+2009", "U+200A",
      "U+2028", "U+2029", "U+202F", "U+205F", "U+3000">>
IdCycle == <<"m", "Y", "_", "7", "q", "0">>

\* A whitespace run of n characters (n = -1: the run as the template has it).
WsRun(n, orig, k) ==
    IF n < 0 THEN orig ELSE [i \in 1..n |-> WsCycle[((k + i) % Len(WsCycle)) + 1]]

\* An identifier-safe value of n characters.
IdValue(n, k) == [i \in 1..n |-> IdCycle[((k + i) % Len(IdCycle)) + 1]]

PrefixRuns == Runs(expected_prefix_template)
SuffixRuns == Runs(expected_suffix_template)

NoAlt == [side |-> "none", k |-> 0, i |-> 0, c |-> ""]

\* The runs of one template filled in: edge is the index of the run next to
\* the inserted text.
Fill(runs, side, edge, g) ==
    Concat([k \in DOMAIN runs |->
        IF runs[k].kind = "ws"
        THEN WsRun(IF k = edge THEN g.wsEdge[side] ELSE g.wsIn, runs[k].s, k)
        ELSE IF runs[k].kind = "id"
        THEN IF g.alt.side = side /\ g.alt.k = k THEN <<g.alt.c>> ELSE IdValue(g.idLen, k)
        ELSE IF g.alt.side = side /\ g.alt.k = k
        THEN [runs[k].s EXCEPT ![g.alt.i] = g.alt.c]
        ELSE runs[k].s])

Generated(g) ==
    Fill(PrefixRuns, "prefix", Len(PrefixRuns), g)
        \o g.ins
        \o Fill(SuffixRuns, "suffix", 1, g)

Inserted ==
    { <<"f","u","n","c","t","i","o","n"," ","_","_","i","n","i","t","i","a","l","i","z","e",
        "(","a",",","b",")","{","}">>,
      <<"v","a","r"," ","x",";">>,
      <<>>,
      <<"\n">>,
      <<" ","_","_","i","n","i","t","i","a","l","i","z","e","(",")",";">>,
      <<"_","_","i","n","i","t","i","a","l","i","z","e","(",")",";","\n"," ">>,
      <<"i","f","("," ","_","_","i","n","i","t","i","a","l","i","z","e"," ",")"," ","{","}">> }

WsChoices == (-1)..MaxWs

AltChars == {"#", " ", "U+00A0", "Z"}

\* Every literal character of a template, each altered to another character.
Alterations(runs, side) ==
    LET lits == {r \in DOMAIN runs : runs[r].kind = "lit"}
        at   == UNION {{<<k, i>> : i \in 1..Len(runs[k].s)} : k \in lits}
    IN  UNION {{[side |-> side, k |-> p[1], i |-> p[2], c |-> c] :
                    c \in AltChars \ {runs[p[1]].s[p[2]]}} : p \in at}

NonIdChars == {"#", " ", "-", "$", "U+00E9"}

\* Every placeholder of a template, holding one character that is not
\* identifier-safe (i = 0 tells these from the literal alterations).
PlaceholderAlterations(runs, side) ==
    {[side |-> side, k |-> k, i |-> 0, c |-> c] :
        k \in {r \in DOMAIN runs : runs[r].kind = "id"}, c \in NonIdChars}

\* ------------------------------------------------------------------------
\* File system: a function from paths to contents. A path is a directory
\* (relative to the project root) and a file name.

target_dir == "target/wasm32-unknown-unknown/release/"

\* The output directory placed where cargo writes its artifacts.
out_dir_InRelease == target_dir

out_dir == "target"

\* Path::join
Join(dir, file_name) == [dir |-> dir, name |-> file_name]

CompiledWasm == <<"c","o","m","p","i","l","e","d",".","w","a","s","m">>
MainJs == <<"m","a","i","n",".","j","s">>

ExtWasm == <<"w","a","s","m">>
ExtJs == <<"j","s">>

\* Path::extension of a file name: the part after the last ".", none when
\* there is no "." or the only "." is the first character.
extension(file_name) ==
    LET dots == {i \in 1..Len(file_name) : file_name[i] = "."}
    IN  IF dots = {} \/ Max(dots) = 1 THEN None
        ELSE [kind |-> "Some",
              ext  |-> SubSeq(file_name, Max(dots) + 1, Len(file_name))]

\* A directory exists when it holds its own entry ".", which read_dir does
\* not yield.
Dot == <<".">>

is_dir(fs, dir) == Join(dir, Dot) \in DOMAIN fs

\* The names of the directory's entries.
entries(fs, dir) == {p.name : p \in {q \in DOMAIN fs : q.dir = dir /\ q.name # Dot}}

\* An io::Error passed on by `?`: the call that failed.
IoError(call) == [kind |-> "Err", error |-> "io error", call |-> call]

\* fs::read_dir: the entries of the directory, or the io error when the
\* directory does not exist.
read_dir(fs, dir) ==
    IF is_dir(fs, dir) THEN [kind |-> "Ok", names |-> entries(fs, dir)]
    ELSE IoError("read_dir")

\* fs::create_dir_all: the directory exists afterwards.
create_dir_all(fs, dir) ==
    [q \in DOMAIN fs \cup {Join(dir, Dot)} |-> IF q \in DOMAIN fs THEN fs[q] ELSE <<>>]

\* fs::write: create or truncate, then write the whole contents.
fs_write(fs, path, contents) ==
    [q \in DOMAIN fs \cup {path} |-> IF q = path THEN contents ELSE fs[q]]

\* fs::copy that leaves an existing destination as it is.
fs_copy_KeepExisting(fs, from, to) ==
    IF to \in DOMAIN fs THEN fs ELSE fs_write(fs, to, fs[from])

\* fs::copy: the destination is created or overwritten with the source's
\* contents.
fs_copy(fs, from, to) == fs_write(fs, to, fs[from])

\* What the stage manages: target/compiled.wasm and target/main.js.
OutputPaths == {Join(out_dir, CompiledWasm), Join(out_dir, MainJs)}

Outputs(fs) == [p \in OutputPaths \cap DOMAIN fs |-> fs[p]]

\* ------------------------------------------------------------------------
\* The artifact scan of build (lines 57-86).

NotFound == [wasm_file |-> None, generated_js |-> None]

ScanError(what, category) ==
    [kind |-> "Err", error |-> what, category |-> category, dir |-> target_dir]

\* ScanEntry without its ensure! checks: a later entry replaces an earlier one.
ScanEntry_NoEnsure(acc, file_name) ==
    LET e == extension(file_name)
    IN  IF e.kind = "Some" /\ e.ext = ExtWasm
        THEN [acc EXCEPT !.wasm_file =
                 [kind |-> "Some", path |-> Join(target_dir, file_name)]]
        ELSE IF e.kind = "Some" /\ e.ext = ExtJs
        THEN [acc EXCEPT !.generated_js =
                 [kind |-> "Some", path |-> Join(target_dir, file_name)]]
        ELSE acc

\* ScanEntry taking an entry without extension for a js file.
ScanEntry_NoExtensionIsJs(acc, file_name) ==
    LET e == extension(file_name)
    IN  IF e.kind = "Some" /\ e.ext = ExtWasm
        THEN IF acc.wasm_file # None
             THEN ScanError("multiple files found", "wasm")
             ELSE [acc EXCEPT !.wasm_file =
                      [kind |-> "Some", path |-> Join(target_dir, file_name)]]
        ELSE IF e = None \/ e.ext = ExtJs
        THEN IF acc.generated_js # None
             THEN ScanError("multiple files found", "js")
             ELSE [acc EXCEPT !.generated_js =
                      [kind |-> "Some", path |-> Join(target_dir, file_name)]]
        ELSE acc

\* One iteration of the loop over the directory entries.
ScanEntry(acc, file_name) ==
    LET e == extension(file_name)
    IN  IF e.kind = "Some" /\ e.ext = ExtWasm
        THEN IF acc.wasm_file # None
             THEN ScanError("multiple files found", "wasm")
             ELSE [acc EXCEPT !.wasm_file =
                      [kind |-> "Some", path |-> Join(target_dir, file_name)]]
        ELSE IF e.kind = "Some" /\ e.ext = ExtJs
        THEN IF acc.generated_js # None
             THEN ScanError("multiple files found", "js")
             ELSE [acc EXCEPT !.generated_js =
                      [kind |-> "Some", path |-> Join(target_dir, file_name)]]
        ELSE acc

\* The loop, over the entries in the order read_dir yields them; ensure!
\* returns from build at the first failure.
RECURSIVE ScanLoop(_, _, _)
ScanLoop(order, i, acc) ==
    IF i > Len(order) THEN acc
    ELSE LET next == ScanEntry(acc, order[i])
         IN  IF "kind" \in DOMAIN next THEN next ELSE ScanLoop(order, i + 1, next)

\* The scan with both ok_or_else checks that follow the loop.
scan(order) ==
    LET found == ScanLoop(order, 1, NotFound)
    IN  IF "kind" \in DOMAIN found THEN found
        ELSE IF found.wasm_file = None THEN ScanError("no files found", "wasm")
        ELSE IF found.generated_js = None THEN ScanError("no files found", "js")
        ELSE [kind |-> "Ok", wasm_file |-> found.wasm_file.path,
              generated_js |-> found.generated_js.path]

\* The scan of a directory whose entry number fail cannot be read (`r?` of
\* line 60; fail = 0: every entry is read): the loop runs over the entries
\* before it, then the io error is returned.
scan_io(order, fail) ==
    IF fail = 0 THEN scan(order)
    ELSE LET found == ScanLoop(SubSeq(order, 1, fail - 1), 1, NotFound)
         IN  IF "kind" \in DOMAIN found THEN found ELSE IoError("read_dir entry")

\* The orders in which a directory's entries can be enumerated.
Orders(names) ==
    LET n == Cardinality(names)
    IN  {f \in [1..n -> names] : \A i, j \in 1..n : f[i] = f[j] => i = j}

\* ------------------------------------------------------------------------
\* The toolchain process.

ExitCodes == {0, 1, 101}

\* How spawn()?.wait()? can end: the process could not be started, or it
\* ran and exited with a status.
Outcomes ==
    {[kind |-> "SpawnFailed"]} \cup {[kind |-> "Exited", code |-> c] : c \in ExitCodes}

CheckCommand == "cargo check"
BuildCommand == "cargo web"

CommandOf(m) == IF m = "check" THEN CheckCommand ELSE BuildCommand

\* The exit status never looked at.
success_Always(cargo) == TRUE

\* ExitStatus::success
success(cargo) == cargo.code = 0

\* Lines 15-25 and 35-50: `?` on spawn, then bail! on a non-zero status.
run_cargo(cargo, command) ==
    IF cargo.kind = "SpawnFailed"
    THEN [kind |-> "Err", error |-> "spawn failed"]
    ELSE IF ~success(cargo)
    THEN [kind |-> "Err", error |-> "exited with a non-zero exit code",
          command |-> command, status |-> cargo.code]
    ELSE [kind |-> "Ok"]

\* ------------------------------------------------------------------------
\* constants::types: the translated game constants.

Some(v) == [kind |-> "Some", v |-> v]

\* enum StructureType: the variants and their discriminants.
StructureType ==
    [Spawn |-> 0, Extension |-> 1, Road |-> 2, Wall |-> 3, Rampart |-> 4,
     KeeperLair |-> 5, Portal |-> 6, Controller |-> 7, Link |-> 8,
     Storage |-> 9, Tower |-> 10, Observer |-> 11, PowerBank |-> 12,
     PowerSpawn |-> 13, Extractor |-> 14, Lab |-> 15, Terminal |-> 16,
     Container |-> 17, Nuker |-> 18, Factory |-> 19, InvaderCore |-> 20]

\* StructureType::construction_cost
construction_cost(self) ==
    CASE self = "Spawn" -> Some(15000)
      [] self = "Extension" -> Some(3000)
      [] self = "Road" -> Some(300)
      [] self = "Wall" -> Some(1)
      [] self = "Rampart" -> Some(1)
      [] self = "Link" -> Some(5000)
      [] self = "Storage" -> Some(30000)
      [] self = "Tower" -> Some(5000)
      [] self = "Observer" -> Some(8000)
      [] self = "PowerSpawn" -> Some(100000)
      [] self = "Extractor" -> Some(5000)
      [] self = "Lab" -> Some(50000)
      [] self = "Terminal" -> Some(100000)
      [] self = "Container" -> Some(5000)
      [] self = "Nuker" -> Some(100000)
      [] self = "Factory" -> Some(100000)
      [] self \in {"KeeperLair", "PowerBank", "Portal", "Controller", "InvaderCore"} -> None

\* controller_structures with the extensions of level 7 mistyped.
controller_structures_Mistyped(self, current_rcl) ==
    CASE self = "Spawn" ->
           (CASE current_rcl = 0 -> 0
             []  current_rcl \in 1..6 -> 1
             []  current_rcl = 7 -> 2
             []  OTHER -> 3)
      [] self = "Extension" ->
           (CASE current_rcl \in {0, 1} -> 0
             []  current_rcl = 2 -> 5
             []  current_rcl = 3 -> 10
             []  current_rcl = 4 -> 20
             []  current_rcl = 5 -> 30
             []  current_rcl = 6 -> 40
             []  current_rcl = 7 -> 5
             []  OTHER -> 60)
      [] self = "Road" -> 2500
      [] self = "Wall" ->
           (CASE current_rcl \in {0, 1} -> 0
             []  OTHER -> 2500)
      [] self = "Rampart" ->
           (CASE current_rcl \in {0, 1} -> 0
             []  OTHER -> 2500)
      [] self = "Link" ->
           (CASE current_rcl \in 0..4 -> 0
             []  current_rcl = 5 -> 2
             []  current_rcl = 6 -> 3
             []  current_rcl = 7 -> 4
             []  OTHER -> 6)
      [] self = "Storage" ->
           (CASE current_rcl \in 0..3 -> 0
             []  OTHER -> 1)
      [] self = "Tower" ->
           (CASE current_rcl \in {0, 1, 2} -> 0
             []  current_rcl \in {3, 4} -> 1
             []  current_rcl \in {5, 6} -> 2
             []  current_rcl = 7 -> 3
             []  OTHER -> 6)
      [] self = "Observer" ->
           (CASE current_rcl \in 0..7 -> 0
             []  OTHER -> 1)
      [] self = "PowerSpawn" ->
           (CASE current_rcl \in 0..7 -> 0
             []  OTHER -> 1)
      [] self = "Extractor" ->
           (CASE current_rcl \in 0..5 -> 0
             []  OTHER -> 1)
      [] self = "Lab" ->
           (CASE current_rcl \in 0..5 -> 0
             []  current_rcl = 6 -> 3
             []  current_rcl = 7 -> 6
             []  OTHER -> 10)
      [] self = "Terminal" ->
           (CASE current_rcl \in 0..5 -> 0
             []  OTHER -> 1)
      [] self = "Container" -> 5
      [] self = "Nuker" ->
           (CASE current_rcl \in 0..7 -> 0
             []  OTHER -> 1)
      [] self = "Factory" ->
           (CASE current_rcl \in 0..6 -> 0
             []  OTHER -> 1)
      [] self \in {"KeeperLair", "PowerBank", "Portal", "Controller", "InvaderCore"} -> 0

\* StructureType::controller_structures
controller_structures(self, current_rcl) ==
    CASE self = "Spawn" ->
           (CASE current_rcl = 0 -> 0
             []  current_rcl \in 1..6 -> 1
             []  current_rcl = 7 -> 2
             []  OTHER -> 3)
      [] self = "Extension" ->
           (CASE current_rcl \in {0, 1} -> 0
             []  current_rcl = 2 -> 5
             []  current_rcl = 3 -> 10
             []  current_rcl = 4 -> 20
             []  current_rcl = 5 -> 30
             []  current_rcl = 6 -> 40
             []  current_rcl = 7 -> 50
             []  OTHER -> 60)
      [] self = "Road" -> 2500
      [] self = "Wall" ->
           (CASE current_rcl \in {0, 1} -> 0
             []  OTHER -> 2500)
      [] self = "Rampart" ->
           (CASE current_rcl \in {0, 1} -> 0
             []  OTHER -> 2500)
      [] self = "Link" ->
           (CASE current_rcl \in 0..4 -> 0
             []  current_rcl = 5 -> 2
             []  current_rcl = 6 -> 3
             []  current_rcl = 7 -> 4
             []  OTHER -> 6)
      [] self = "Storage" ->
           (CASE current_rcl \in 0..3 -> 0
             []  OTHER -> 1)
      [] self = "Tower" ->
           (CASE current_rcl \in {0, 1, 2} -> 0
             []  current_rcl \in {3, 4} -> 1
             []  current_rcl \in {5, 6} -> 2
             []  current_rcl = 7 -> 3
             []  OTHER -> 6)
      [] self = "Observer" ->
           (CASE current_rcl \in 0..7 -> 0
             []  OTHER -> 1)
      [] self = "PowerSpawn" ->
           (CASE current_rcl \in 0..7 -> 0
             []  OTHER -> 1)
      [] self = "Extractor" ->
           (CASE current_rcl \in 0..5 -> 0
             []  OTHER -> 1)
      [] self = "Lab" ->
           (CASE current_rcl \in 0..5 -> 0
             []  current_rcl = 6 -> 3
             []  current_rcl = 7 -> 6
             []  OTHER -> 10)
      [] self = "Terminal" ->
           (CASE current_rcl \in 0..5 -> 0
             []  OTHER -> 1)
      [] self = "Container" -> 5
      [] self = "Nuker" ->
           (CASE current_rcl \in 0..7 -> 0
             []  OTHER -> 1)
      [] self = "Factory" ->
           (CASE current_rcl \in 0..6 -> 0
             []  OTHER -> 1)
      [] self \in {"KeeperLair", "PowerBank", "Portal", "Controller", "InvaderCore"} -> 0

\* StructureType::initial_hits; a constant of super::numbers is modelled by
\* its name.
initial_hits(self) ==
    CASE self = "Spawn" -> Some("SPAWN_HITS")
      [] self = "Extension" -> Some("EXTENSION_HITS")
      [] self = "Road" -> Some("ROAD_HITS")
      [] self = "Wall" -> Some("WALL_HITS")
      [] self = "Rampart" -> Some("RAMPART_HITS")
      [] self = "Link" -> Some("LINK_HITS")
      [] self = "Storage" -> Some("STORAGE_HITS")
      [] self = "Tower" -> Some("TOWER_HITS")
      [] self = "Observer" -> Some("OBSERVER_HITS")
      [] self = "PowerBank" -> Some("POWER_BANK_HITS")
      [] self = "PowerSpawn" -> Some("POWER_SPAWN_HITS")
      [] self = "Extractor" -> Some("EXTENSION_HITS")
      [] self = "Lab" -> Some("LAB_HITS")
      [] self = "Terminal" -> Some("TOWER_HITS")
      [] self = "Container" -> Some("CONTAINER_HITS")
      [] self = "Nuker" -> Some("NUKER_HITS")
      [] self = "Factory" -> Some("FACTORY_HITS")
      [] self = "InvaderCore" -> Some("INVADER_CORE_HITS")
      [] self \in {"KeeperLair", "Portal", "Controller"} -> None

\* enum IntershardResourceType
IntershardResourceType == [SubscriptionToken |-> 1001]

\* enum ResourceType: the variants and their discriminants.
ResourceType ==
    [Energy |-> 1, Power |-> 2, Hydrogen |-> 3, Oxygen |-> 4, Utrium |-> 5,
     Lemergium |-> 6, Keanium |-> 7, Zynthium |-> 8, Catalyst |-> 9,
     Ghodium |-> 10, Hydroxide |-> 11, ZynthiumKeanite |-> 12,
     UtriumLemergite |-> 13, UtriumHydride |-> 14, UtriumOxide |-> 15,
     KeaniumHydride |-> 16, KeaniumOxide |-> 17, LemergiumHydride |-> 18,
     LemergiumOxide |-> 19, ZynthiumHydride |-> 20, ZynthiumOxide |-> 21,
     GhodiumHydride |-> 22, GhodiumOxide |-> 23, UtriumAcid |-> 24,
     UtriumAlkalide |-> 25, KeaniumAcid |-> 26, KeaniumAlkalide |-> 27,
     LemergiumAcid |-> 28, LemergiumAlkalide |-> 29, ZynthiumAcid |-> 30,
     ZynthiumAlkalide |-> 31, GhodiumAcid |-> 32, GhodiumAlkalide |-> 33,
     CatalyzedUtriumAcid |-> 34, CatalyzedUtriumAlkalide |-> 35,
     CatalyzedKeaniumAcid |-> 36, CatalyzedKeaniumAlkalide |-> 37,
     CatalyzedLemergiumAcid |-> 38, CatalyzedLemergiumAlkalide |-> 39,
     CatalyzedZynthiumAcid |-> 40, CatalyzedZynthiumAlkalide |-> 41,
     CatalyzedGhodiumAcid |-> 42, CatalyzedGhodiumAlkalide |-> 43,
     Ops |-> 44, Silicon |-> 45, Metal |-> 46, Biomass |-> 47, Mist |-> 48,
     UtriumBar |-> 49, LemergiumBar |-> 50, ZynthiumBar |-> 51,
     KeaniumBar |-> 52, GhodiumMelt |-> 53, Oxidant |-> 54, Reductant |-> 55,
     Purifier |-> 56, Battery |-> 57, Composite |-> 58, Crystal |-> 59,
     Liquid |-> 60, Wire |-> 61, Switch |-> 62, Transistor |-> 63,
     Microchip |-> 64, Circuit |-> 65, Device |-> 66, Cell |-> 67,
     Phlegm |-> 68, Tissue |-> 69, Muscle |-> 70, Organoid |-> 71,
     Organism |-> 72, Alloy |-> 73, Tube |-> 74, Fixtures |-> 75,
     Frame |-> 76, Hydraulics |-> 77, Machine |-> 78, Condensate |-> 79,
     Concentrate |-> 80, Extract |-> 81, Spirit |-> 82, Emanation |-> 83,
     Essence |-> 84]

\* The display string of each ResourceType variant.
display ==
    [Energy |-> "energy", Power |-> "power", Hydrogen |-> "H",
     Oxygen |-> "O", Utrium |-> "U", Lemergium |-> "L", Keanium |-> "K",
     Zynthium |-> "Z", Catalyst |-> "X", Ghodium |-> "G", Hydroxide |-> "OH",
     ZynthiumKeanite |-> "ZK", UtriumLemergite |-> "UL",
     UtriumHydride |-> "UH", UtriumOxide |-> "UO", KeaniumHydride |-> "KH",
     KeaniumOxide |-> "KO", LemergiumHydride |-> "LH",
     LemergiumOxide |-> "LO", ZynthiumHydride |-> "ZH",
     ZynthiumOxide |-> "ZO", GhodiumHydride |-> "GH", GhodiumOxide |-> "GO",
     UtriumAcid |-> "UH2O", UtriumAlkalide |-> "UHO2",
     KeaniumAcid |-> "KH2O", KeaniumAlkalide |-> "KHO2",
     LemergiumAcid |-> "LH2O", LemergiumAlkalide |-> "LHO2",
     ZynthiumAcid |-> "ZH2O", ZynthiumAlkalide |-> "ZHO2",
     GhodiumAcid |-> "GH2O", GhodiumAlkalide |-> "GHO2",
     CatalyzedUtriumAcid |-> "XUH2O", CatalyzedUtriumAlkalide |-> "XUHO2",
     CatalyzedKeaniumAcid |-> "XKH2O", CatalyzedKeaniumAlkalide |-> "XKHO2",
     CatalyzedLemergiumAcid |-> "XLH2O",
     CatalyzedLemergiumAlkalide |-> "XLHO2",
     CatalyzedZynthiumAcid |-> "XZH2O",
     CatalyzedZynthiumAlkalide |-> "XZHO2", CatalyzedGhodiumAcid |-> "XGH2O",
     CatalyzedGhodiumAlkalide |-> "XGHO2", Ops |-> "ops",
     Silicon |-> "silicon", Metal |-> "metal", Biomass |-> "biomass",
     Mist |-> "mist", UtriumBar |-> "utrium_bar",
     LemergiumBar |-> "lemergium_bar", ZynthiumBar |-> "zynthium_bar",
     KeaniumBar |-> "keanium_bar", GhodiumMelt |-> "ghodium_melt",
     Oxidant |-> "oxidant", Reductant |-> "reductant",
     Purifier |-> "purifier", Battery |-> "battery",
     Composite |-> "composite", Crystal |-> "crystal", Liquid |-> "liquid",
     Wire |-> "wire", Switch |-> "switch", Transistor |-> "transistor",
     Microchip |-> "microchip", Circuit |-> "circuit", Device |-> "device",
     Cell |-> "cell", Phlegm |-> "phlegm", Tissue |-> "tissue",
     Muscle |-> "muscle", Organoid |-> "organoid", Organism |-> "organism",
     Alloy |-> "alloy", Tube |-> "tube", Fixtures |-> "fixtures",
     Frame |-> "frame", Hydraulics |-> "hydraulics", Machine |-> "machine",
     Condensate |-> "condensate", Concentrate |-> "concentrate",
     Extract |-> "extract", Spirit |-> "spirit", Emanation |-> "emanation",
     Essence |-> "essence"]

\* enum Boost: the effect and its f64 multiplier, held in tenths.
Boost(effect, tenths) == [effect |-> effect, tenths |-> tenths]

\* The BOOSTS table as the comments of ResourceType::boost quote it from
\* constants.js, by compound; the multipliers in tenths.
BOOSTS ==
    [UH |-> [attack |-> 20],
     UH2O |-> [attack |-> 30],
     XUH2O |-> [attack |-> 40],
     UO |-> [harvest |-> 30],
     UHO2 |-> [harvest |-> 50],
     XUHO2 |-> [harvest |-> 70],
     KH |-> [capacity |-> 20],
     KH2O |-> [capacity |-> 30],
     XKH2O |-> [capacity |-> 40],
     KO |-> [rangedAttack |-> 20, rangedMassAttack |-> 20],
     KHO2 |-> [rangedAttack |-> 30, rangedMassAttack |-> 30],
     XKHO2 |-> [rangedAttack |-> 40, rangedMassAttack |-> 40],
     LH |-> [build |-> 15, repair |-> 15],
     LH2O |-> [build |-> 18, repair |-> 18],
     XLH2O |-> [build |-> 20, repair |-> 20],
     LO |-> [heal |-> 20, rangedHeal |-> 20],
     LHO2 |-> [heal |-> 30, rangedHeal |-> 30],
     XLHO2 |-> [heal |-> 40, rangedHeal |-> 40],
     ZH |-> [dismantle |-> 20],
     ZH2O |-> [dismantle |-> 30],
     XZH2O |-> [dismantle |-> 40],
     ZO |-> [fatigue |-> 20],
     ZHO2 |-> [fatigue |-> 30],
     XZHO2 |-> [fatigue |-> 40],
     GH |-> [upgradeController |-> 15],
     GH2O |-> [upgradeController |-> 18],
     XGH2O |-> [upgradeController |-> 20],
     GO |-> [damage |-> 7],
     GHO2 |-> [damage |-> 5],
     XGHO2 |-> [damage |-> 3]]

\* ResourceType::boost
boost(self) ==
    CASE self = "UtriumHydride" -> Some(Boost("Attack", 20))
      [] self = "UtriumAcid" -> Some(Boost("Attack", 30))
      [] self = "CatalyzedUtriumAcid" -> Some(Boost("Attack", 40))
      [] self = "UtriumOxide" -> Some(Boost("Harvest", 30))
      [] self = "UtriumAlkalide" -> Some(Boost("Harvest", 50))
      [] self = "CatalyzedUtriumAlkalide" -> Some(Boost("Harvest", 70))
      [] self = "KeaniumHydride" -> Some(Boost("Carry", 20))
      [] self = "KeaniumAcid" -> Some(Boost("Carry", 30))
      [] self = "CatalyzedKeaniumAcid" -> Some(Boost("Carry", 40))
      [] self = "KeaniumOxide" -> Some(Boost("RangedAttack", 20))
      [] self = "KeaniumAlkalide" -> Some(Boost("RangedAttack", 40))
      [] self = "CatalyzedKeaniumAlkalide" -> Some(Boost("RangedAttack", 40))
      [] self = "LemergiumHydride" -> Some(Boost("BuildAndRepair", 15))
      [] self = "LemergiumAcid" -> Some(Boost("BuildAndRepair", 18))
      [] self = "CatalyzedLemergiumAcid" -> Some(Boost("BuildAndRepair", 20))
      [] self = "LemergiumOxide" -> Some(Boost("Heal", 20))
      [] self = "LemergiumAlkalide" -> Some(Boost("Heal", 30))
      [] self = "CatalyzedLemergiumAlkalide" -> Some(Boost("Heal", 40))
      [] self = "ZynthiumHydride" -> Some(Boost("Dismantle", 20))
      [] self = "ZynthiumAcid" -> Some(Boost("Dismantle", 30))
      [] self = "CatalyzedZynthiumAcid" -> Some(Boost("Dismantle", 40))
      [] self = "ZynthiumOxide" -> Some(Boost("Move", 20))
      [] self = "ZynthiumAlkalide" -> Some(Boost("Move", 30))
      [] self = "CatalyzedZynthiumAlkalide" -> Some(Boost("Move", 40))
      [] self = "GhodiumHydride" -> Some(Boost("UpgradeController", 15))
      [] self = "GhodiumAcid" -> Some(Boost("UpgradeController", 18))
      [] self = "CatalyzedGhodiumAcid" -> Some(Boost("UpgradeController", 20))
      [] self = "GhodiumOxide" -> Some(Boost("Tough", 7))
      [] self = "GhodiumAlkalide" -> Some(Boost("Tough", 5))
      [] self = "CatalyzedGhodiumAlkalide" -> Some(Boost("Tough", 3))
      [] OTHER -> None

\* enum MarketResourceType
Resource(ty) == [tag |-> "Resource", ty |-> ty]

IntershardResource(ty) == [tag |-> "IntershardResource", ty |-> ty]

Ok(v) == [kind |-> "Ok", v |-> v]

invalid_value(unexp, exp) ==
    [kind |-> "Err", error |-> "invalid value", unexpected |-> unexp, expected |-> exp]

\* <MarketResourceType as Deserialize>::deserialize: the integer is read as
\* a u16 and looked up.
deserialize(resource) ==
    IF resource \notin 0..65535 THEN invalid_value(resource, "u16")
    ELSE CASE resource = 1 -> Ok(Resource("Energy"))
           [] resource = 2 -> Ok(Resource("Power"))
           [] resource = 3 -> Ok(Resource("Hydrogen"))
           [] resource = 4 -> Ok(Resource("Oxygen"))
           [] resource = 5 -> Ok(Resource("Utrium"))
           [] resource = 6 -> Ok(Resource("Lemergium"))
           [] resource = 7 -> Ok(Resource("Keanium"))
           [] resource = 8 -> Ok(Resource("Zynthium"))
           [] resource = 9 -> Ok(Resource("Catalyst"))
           [] resource = 10 -> Ok(Resource("Ghodium"))
           [] resource = 11 -> Ok(Resource("Hydroxide"))
           [] resource = 12 -> Ok(Resource("ZynthiumKeanite"))
           [] resource = 13 -> Ok(Resource("UtriumLemergite"))
           [] resource = 14 -> Ok(Resource("UtriumHydride"))
           [] resource = 15 -> Ok(Resource("UtriumOxide"))
           [] resource = 16 -> Ok(Resource("KeaniumHydride"))
           [] resource = 17 -> Ok(Resource("KeaniumOxide"))
           [] resource = 18 -> Ok(Resource("LemergiumHydride"))
           [] resource = 19 -> Ok(Resource("LemergiumOxide"))
           [] resource = 20 -> Ok(Resource("ZynthiumHydride"))
           [] resource = 21 -> Ok(Resource("ZynthiumOxide"))
           [] resource = 22 -> Ok(Resource("GhodiumHydride"))
           [] resource = 23 -> Ok(Resource("GhodiumOxide"))
           [] resource = 24 -> Ok(Resource("UtriumAcid"))
           [] resource = 25 -> Ok(Resource("UtriumAlkalide"))
           [] resource = 26 -> Ok(Resource("KeaniumAcid"))
           [] resource = 27 -> Ok(Resource("KeaniumAlkalide"))
           [] resource = 28 -> Ok(Resource("LemergiumAcid"))
           [] resource = 29 -> Ok(Resource("LemergiumAlkalide"))
           [] resource = 30 -> Ok(Resource("ZynthiumAcid"))
           [] resource = 31 -> Ok(Resource("ZynthiumAlkalide"))
           [] resource = 32 -> Ok(Resource("GhodiumAcid"))
           [] resource = 33 -> Ok(Resource("GhodiumAlkalide"))
           [] resource = 34 -> Ok(Resource("CatalyzedUtriumAcid"))
           [] resource = 35 -> Ok(Resource("CatalyzedUtriumAlkalide"))
           [] resource = 36 -> Ok(Resource("CatalyzedKeaniumAcid"))
           [] resource = 37 -> Ok(Resource("CatalyzedKeaniumAlkalide"))
           [] resource = 38 -> Ok(Resource("CatalyzedLemergiumAcid"))
           [] resource = 39 -> Ok(Resource("CatalyzedLemergiumAlkalide"))
           [] resource = 40 -> Ok(Resource("CatalyzedZynthiumAcid"))
           [] resource = 41 -> Ok(Resource("CatalyzedZynthiumAlkalide"))
           [] resource = 42 -> Ok(Resource("CatalyzedGhodiumAcid"))
           [] resource = 43 -> Ok(Resource("CatalyzedGhodiumAlkalide"))
           [] resource = 44 -> Ok(Resource("Ops"))
           [] resource = 45 -> Ok(Resource("Silicon"))
           [] resource = 46 -> Ok(Resource("Metal"))
           [] resource = 47 -> Ok(Resource("Biomass"))
           [] resource = 48 -> Ok(Resource("Mist"))
           [] resource = 49 -> Ok(Resource("UtriumBar"))
           [] resource = 50 -> Ok(Resource("LemergiumBar"))
           [] resource = 51 -> Ok(Resource("ZynthiumBar"))
           [] resource = 52 -> Ok(Resource("KeaniumBar"))
           [] resource = 53 -> Ok(Resource("GhodiumMelt"))
           [] resource = 54 -> Ok(Resource("Oxidant"))
           [] resource = 55 -> Ok(Resource("Reductant"))
           [] resource = 56 -> Ok(Resource("Purifier"))
           [] resource = 57 -> Ok(Resource("Battery"))
           [] resource = 58 -> Ok(Resource("Composite"))
           [] resource = 59 -> Ok(Resource("Crystal"))
           [] resource = 60 -> Ok(Resource("Liquid"))
           [] resource = 61 -> Ok(Resource("Wire"))
           [] resource = 62 -> Ok(Resource("Switch"))
           [] resource = 63 -> Ok(Resource("Transistor"))
           [] resource = 64 -> Ok(Resource("Microchip"))
           [] resource = 65 -> Ok(Resource("Circuit"))
           [] resource = 66 -> Ok(Resource("Device"))
           [] resource = 67 -> Ok(Resource("Cell"))
           [] resource = 68 -> Ok(Resource("Phlegm"))
           [] resource = 69 -> Ok(Resource("Tissue"))
           [] resource = 70 -> Ok(Resource("Muscle"))
           [] resource = 71 -> Ok(Resource("Organoid"))
           [] resource = 72 -> Ok(Resource("Organism"))
           [] resource = 73 -> Ok(Resource("Alloy"))
           [] resource = 74 -> Ok(Resource("Tube"))
           [] resource = 75 -> Ok(Resource("Fixtures"))
           [] resource = 76 -> Ok(Resource("Frame"))
           [] resource = 77 -> Ok(Resource("Hydraulics"))
           [] resource = 78 -> Ok(Resource("Machine"))
           [] resource = 79 -> Ok(Resource("Condensate"))
           [] resource = 80 -> Ok(Resource("Concentrate"))
           [] resource = 81 -> Ok(Resource("Extract"))
           [] resource = 82 -> Ok(Resource("Spirit"))
           [] resource = 83 -> Ok(Resource("Emanation"))
           [] resource = 84 -> Ok(Resource("Essence"))
           [] resource = 1001 -> Ok(IntershardResource("SubscriptionToken"))
           [] OTHER -> invalid_value(resource,
                  "a valid RESOURCES_ALL or INTERSHARD_RESOURCES type integer")

\* Serialize_repr with repr(u8): the discriminant truncated to eight bits.
serialize_ReprU8(self) ==
    (IF self.tag = "Resource" THEN ResourceType[self.ty]
     ELSE IntershardResourceType[self.ty]) % 256

\* <MarketResourceType as Serialize>::serialize: Serialize_repr of the inner
\* enum writes its discriminant.
serialize(self) ==
    IF self.tag = "Resource" THEN ResourceType[self.ty]
    ELSE IntershardResourceType[self.ty]


\* Inputs of the calls: controller levels and integers on the wire.
MaxLevel == 10
MaxWire == 90

Levels == 0..MaxLevel

WireValues == ((-1)..MaxWire) \cup {255, 256, 745, 1000, 1001, 1002, 65535, 65536, 66537}

MarketResourceTypes ==
    {Resource(ty) : ty \in DOMAIN ResourceType}
        \cup {IntershardResource(ty) : ty \in DOMAIN IntershardResourceType}

\* ------------------------------------------------------------------------
\* Inputs of the pipeline model

OutWasm == <<"o","u","t",".","w","a","s","m">>
LibWasm == <<"l","i","b",".","w","a","s","m">>
OutJs == <<"o","u","t",".","j","s">>
LibJs == <<"l","i","b",".","j","s">>
OutD == <<"o","u","t",".","d">>
BuildDir == <<"b","u","i","l","d">>
DotJs == <<".","j","s">>
UpperJs == <<"o","u","t",".","J","S">>

\* File names cargo may leave in the release directory.
Names == {OutWasm, LibWasm, OutJs, LibJs, OutD, BuildDir, DotJs, UpperJs}

MaxEntries == 4

\* The directories the scan is exercised on.
Directories == {d \in SUBSET Names : Cardinality(d) <= MaxEntries}

WasmBytes == {<<0, 97, 115, 109, 1>>, <<0, 97, 115, 109, 2>>}

Plain(ins) ==
    [wsIn |-> -1, wsEdge |-> [prefix |-> -1, suffix |-> -1],
     idLen |-> 2, ins |-> ins, alt |-> NoAlt]

InitializeFn ==
    <<"f","u","n","c","t","i","o","n"," ","_","_","i","n","i","t","i","a","l","i","z","e",
      "(","a",",","b",")","{","}">>

\* Loader scripts the pipeline is run on: the template around an
\* __initialize function, around a text without it, around nothing, around
\* a text with whitespace at its ends, and one whose fetch branch changed.
Scripts ==
    { Generated(Plain(InitializeFn)),
      Generated(Plain(<<"v","a","r"," ","x",";">>)),
      Generated(Plain(<<>>)),
      Generated(Plain(<<"\n"," ">> \o InitializeFn \o <<"\n">>)),
      Generated([Plain(InitializeFn) EXCEPT
                    !.alt = CHOOSE a \in Alterations(SuffixRuns, "suffix") :
                                /\ a.c = "#"
                                /\ SuffixRuns[a.k].s = <<"f","e","t","c","h","(">>
                                /\ a.i = 1]) }

\* What one toolchain run leaves in the release directory: the expected
\* pair around each script, the pair rebuilt with other wasm bytes, the
\* pair beside unrelated files, and directories with too many or too few
\* artifacts.
Emissions ==
    {[names |-> {OutWasm, OutJs}, js |-> s, wasm |-> <<0, 97, 115, 109, 1>>] :
        s \in Scripts}
    \cup {[names |-> d, js |-> Generated(Plain(InitializeFn)), wasm |-> w] :
            d \in {{OutWasm, OutJs}, {OutWasm, OutJs, OutD, DotJs}}, w \in WasmBytes}
    \cup {[names |-> d, js |-> Generated(Plain(InitializeFn)),
           wasm |-> <<0, 97, 115, 109, 1>>] :
            d \in {{OutWasm, LibWasm, OutJs}, {OutWasm}, {OutJs, LibJs}, {}}}

Keep == [names |-> "keep"]

\* The file system after the toolchain wrote emission e: the release
\* directory exists (and target above it) and holds the emitted files.
Emit(fs, e) ==
    IF e = Keep THEN fs
    ELSE LET kept == {q \in DOMAIN fs : q.dir # target_dir}
             new  == {Join(target_dir, n) : n \in e.names \cup {Dot}}
                        \cup {Join(out_dir, Dot)}
         IN  [q \in kept \cup new |->
                 IF q \in kept THEN fs[q]
                 ELSE LET x == extension(q.name)
                      IN  IF x.kind = "Some" /\ x.ext = ExtJs THEN e.js
                          ELSE IF x.kind = "Some" /\ x.ext = ExtWasm THEN e.wasm
                          ELSE <<>>]

EmptyFs == [q \in {} |-> <<>>]

StaleOutputs ==
    [q \in OutputPaths |->
        IF q.name = MainJs THEN <<"o","l","d",";","\n","o","l","d",";",
                                   "\n","o","l","d",";","\n">> \o SCREEPS_JS_INITIALIZE_CALL
        ELSE <<0, 97, 115, 109, 9, 9, 9>>]

\* Outputs of an earlier build in target, and no release directory.
StaleFs == create_dir_all(StaleOutputs, out_dir)

\* ------------------------------------------------------------------------
\* State

VARIABLES
    files,          \* the file system under the project root
    pc,             \* "idle", or the next step of the running check/build
    mode,           \* "check" or "build"
    cargo_success,  \* how the toolchain process ended in this run
    wasm_file,      \* path the scan found for the wasm file
    generated_js,   \* path the scan found for the js file
    result,         \* what check/build returned
    invocations,    \* toolchain processes started by this run
    scans,          \* read_dir calls made by this run
    before,         \* the file system when this run started
    prev,           \* the previous run: mode, toolchain outcome, success
    same,           \* this run repeats the previous one on unchanged inputs
    js_gen,         \* process_js on its own: how js_input was generated
    js_input,       \* process_js on its own: the input text
    js_out,         \* process_js on its own: what process_js returned
    scan_dir,       \* the scan on its own: the entries of the directory
    scan_order,     \* the scan on its own: the order read_dir yielded them in
    scan_out,       \* the scan on its own: what the scan returned
    call,           \* constants::types: the function called and its arguments
    ret             \* constants::types: what it returned, under the function's name

pipevars == <<files, pc, mode, cargo_success, wasm_file, generated_js, result,
              invocations, scans, before, prev, same>>
jsvars == <<js_gen, js_input, js_out>>
scanvars == <<scan_dir, scan_order, scan_out>>
typevars == <<call, ret>>
vars == <<pipevars, jsvars, scanvars, typevars>>

JsFile == Join(target_dir, OutJs)

PipeIdle(fs) ==
    /\ files = fs
    /\ pc = "idle"
    /\ mode = "none"
    /\ cargo_success = None
    /\ wasm_file = None
    /\ generated_js = None
    /\ result = None
    /\ invocations = 0
    /\ scans = 0
    /\ before = fs
    /\ prev = None
    /\ same = FALSE

JsIdle ==
    /\ js_gen = Plain(<<>>)
    /\ js_input = <<>>
    /\ js_out = None

ScanIdle ==
    /\ scan_dir = {}
    /\ scan_order = <<>>
    /\ scan_out = None

TypesIdle ==
    /\ call = [fn |-> "none"]
    /\ ret = None

\* ------------------------------------------------------------------------
\* The pipeline: check and build, step by step

Init ==
    /\ \E fs \in {EmptyFs, StaleFs} : PipeIdle(fs)
    /\ JsIdle
    /\ ScanIdle
    /\ TypesIdle

\* check(root) or build(root) is called.
Start(m) ==
    /\ pc = "idle"
    /\ pc' = "cargo"
    /\ mode' = m
    /\ cargo_success' = None
    /\ wasm_file' = None
    /\ generated_js' = None
    /\ result' = None
    /\ invocations' = 0
    /\ scans' = 0
    /\ before' = files
    /\ same' = (prev # None /\ prev.mode = m /\ ~prev.entry_failed)
    /\ UNCHANGED <<files, prev, jsvars, scanvars, typevars>>

\* Cargo with check going on to the scan like build does.
Cargo_CheckGoesOn ==
    /\ pc = "cargo"
    /\ \E o \in Outcomes, e \in Emissions \cup {Keep} :
          /\ o.kind = "SpawnFailed" => e = Keep
          /\ cargo_success' = o
          /\ files' = Emit(files, e)
          /\ invocations' = IF o.kind = "SpawnFailed" THEN invocations
                             ELSE invocations + 1
          /\ same' = (same /\ e = Keep /\ o = prev.cargo_success)
          /\ LET r == run_cargo(o, CommandOf(mode))
             IN  IF r.kind = "Err" THEN result' = r /\ pc' = "done"
                 ELSE result' = None /\ pc' = "scan"
    /\ UNCHANGED <<mode, wasm_file, generated_js, scans, before, prev, jsvars, scanvars, typevars>>

\* Lines 15-25 / 35-50: the toolchain is spawned and waited for. A process
\* that started may rewrite the release directory, whatever status it exits
\* with; when none could be started nothing is written and none is counted.
\* A failure returns at once; check returns Ok after a zero status.
Cargo ==
    /\ pc = "cargo"
    /\ \E o \in Outcomes, e \in Emissions \cup {Keep} :
          /\ o.kind = "SpawnFailed" => e = Keep
          /\ cargo_success' = o
          /\ files' = Emit(files, e)
          /\ invocations' = IF o.kind = "SpawnFailed" THEN invocations
                             ELSE invocations + 1
          /\ same' = (same /\ e = Keep /\ o = prev.cargo_success)
          /\ LET r == run_cargo(o, CommandOf(mode))
             IN  IF r.kind = "Err" THEN result' = r /\ pc' = "done"
                 ELSE IF mode = "check" THEN result' = r /\ pc' = "done"
                 ELSE result' = None /\ pc' = "scan"
    /\ UNCHANGED <<mode, wasm_file, generated_js, scans, before, prev, jsvars, scanvars, typevars>>

\* The scan copying the wasm file as soon as the loop meets one.
Scan_EagerCopy ==
    /\ pc = "scan"
    /\ LET d == read_dir(files, target_dir)
       IN  IF d.kind = "Err"
           THEN /\ result' = d
                /\ pc' = "done"
                /\ UNCHANGED <<files, wasm_file, generated_js>>
           ELSE \E order \in Orders(d.names) :
                  LET r == scan(order)
                      wasm == {i \in 1..Len(order) :
                                  extension(order[i]) = [kind |-> "Some", ext |-> ExtWasm]}
                  IN  /\ files' = IF wasm = {} THEN files
                                  ELSE fs_copy(files, Join(target_dir, order[Min(wasm)]),
                                               Join(out_dir, CompiledWasm))
                      /\ IF r.kind = "Err"
                         THEN /\ result' = r
                              /\ pc' = "done"
                              /\ UNCHANGED <<wasm_file, generated_js>>
                         ELSE /\ wasm_file' = r.wasm_file
                              /\ generated_js' = r.generated_js
                              /\ pc' = "copy"
                              /\ UNCHANGED result
    /\ scans' = scans + 1
    /\ UNCHANGED <<mode, cargo_success, invocations, before, prev, same,
                   jsvars, scanvars, typevars>>

\* Lines 54-86: the release directory is scanned. read_dir fails on a
\* missing directory (line 59) and any of its entries may fail to be read
\* (line 60); either io error is returned as it is. An entry
\* that could not be read is a change of the inputs.
Scan ==
    /\ pc = "scan"
    /\ LET d == read_dir(files, target_dir)
       IN  \E r \in (IF d.kind = "Err" THEN {d}
                     ELSE UNION {{scan_io(order, fail) : fail \in 0..Len(order)} :
                                    order \in Orders(d.names)}) :
              /\ same' = (same /\ r # IoError("read_dir entry"))
              /\ IF r.kind = "Err"
                 THEN /\ result' = r
                      /\ pc' = "done"
                      /\ UNCHANGED <<wasm_file, generated_js>>
                 ELSE /\ wasm_file' = r.wasm_file
                      /\ generated_js' = r.generated_js
                      /\ pc' = "copy"
                      /\ UNCHANGED result
    /\ scans' = scans + 1
    /\ UNCHANGED <<files, mode, cargo_success, invocations, before, prev,
                   jsvars, scanvars, typevars>>

\* Lines 88-94: target is created when missing and the wasm file is copied
\* to target/compiled.wasm.
Copy ==
    /\ pc = "copy"
    /\ files' = fs_copy(create_dir_all(files, out_dir), wasm_file,
                        Join(out_dir, CompiledWasm))
    /\ pc' = "js"
    /\ UNCHANGED <<mode, cargo_success, wasm_file, generated_js, result, invocations,
                   scans, before, prev, same, jsvars, scanvars, typevars>>

\* Lines 98-103: the js file is read and processed, and the result written
\* to target/main.js.
WriteJs ==
    /\ pc = "js"
    /\ LET r == process_js(generated_js, files[generated_js])
       IN  IF r.kind = "Ok"
           THEN /\ files' = fs_write(files, Join(out_dir, MainJs), r.text)
                /\ result' = [kind |-> "Ok"]
           ELSE /\ result' = r
                /\ UNCHANGED files
    /\ pc' = "done"
    /\ UNCHANGED <<mode, cargo_success, wasm_file, generated_js, invocations, scans,
                   before, prev, same, jsvars, scanvars, typevars>>

\* check/build has returned (or panicked); the next call may follow.
Return ==
    /\ pc = "done"
    /\ pc' = "idle"
    /\ prev' = [kind |-> "Some", mode |-> mode, cargo_success |-> cargo_success,
                ok |-> (result.kind = "Ok"),
                entry_failed |-> (result = IoError("read_dir entry"))]
    /\ mode' = "none"
    /\ cargo_success' = None
    /\ wasm_file' = None
    /\ generated_js' = None
    /\ result' = None
    /\ invocations' = 0
    /\ scans' = 0
    /\ before' = files
    /\ same' = FALSE
    /\ UNCHANGED <<files, jsvars, scanvars, typevars>>

check == Start("check")

build == Start("build")

Next == check \/ build \/ Cargo \/ Scan \/ Copy \/ WriteJs \/ Return

Spec == Init /\ [][Next]_vars

\* ------------------------------------------------------------------------
\* process_js on generated scripts

AltBases ==
    { <<-1, InitializeFn>>, <<0, InitializeFn>>, <<-1, <<>>>>,
      <<-1, <<"i","f","("," ","_","_","i","n","i","t","i","a","l","i","z","e"," ",")",
              " ","{","}">>>>,
      <<-1, <<"{","}">>>>, <<0, <<"\n","{","}","i">>>> }

InitJs ==
    /\ \/ \E wi \in WsChoices, wp \in WsChoices, wq \in WsChoices,
             n \in 0..MaxId, ins \in Inserted :
             js_gen = [wsIn |-> wi, wsEdge |-> [prefix |-> wp, suffix |-> wq],
                       idLen |-> n, ins |-> ins, alt |-> NoAlt]
       \/ \E b \in AltBases,
             a \in Alterations(PrefixRuns, "prefix") \cup Alterations(SuffixRuns, "suffix") :
             js_gen = [wsIn |-> b[1], wsEdge |-> [prefix |-> b[1], suffix |-> b[1]],
                       idLen |-> 1, ins |-> b[2], alt |-> a]
       \/ \E n \in 0..MaxId,
             a \in PlaceholderAlterations(PrefixRuns, "prefix")
                      \cup PlaceholderAlterations(SuffixRuns, "suffix") :
             js_gen = [wsIn |-> -1, wsEdge |-> [prefix |-> -1, suffix |-> -1],
                       idLen |-> n, ins |-> InitializeFn, alt |-> a]
    /\ js_input = Generated(js_gen)
    /\ js_out = None
    /\ PipeIdle(EmptyFs)
    /\ ScanIdle
    /\ TypesIdle

RunProcessJs ==
    /\ js_out = None
    /\ js_out' = process_js(JsFile, js_input)
    /\ UNCHANGED <<js_gen, js_input, pipevars, scanvars, typevars>>

NextJs == RunProcessJs

SpecJs == InitJs /\ [][NextJs]_vars

\* ------------------------------------------------------------------------
\* Calls of the functions of constants::types

InitTypes ==
    /\ TypesIdle
    /\ PipeIdle(EmptyFs)
    /\ JsIdle
    /\ ScanIdle

CallConstructionCost ==
    /\ \E self \in DOMAIN StructureType :
          /\ call' = [fn |-> "construction_cost", self |-> self]
          /\ ret' = [construction_cost |-> construction_cost(self)]
    /\ UNCHANGED <<pipevars, jsvars, scanvars>>

CallControllerStructures ==
    /\ \E self \in DOMAIN StructureType, current_rcl \in Levels :
          /\ call' = [fn |-> "controller_structures", self |-> self,
                      current_rcl |-> current_rcl]
          /\ ret' = [controller_structures |-> controller_structures(self, current_rcl)]
    /\ UNCHANGED <<pipevars, jsvars, scanvars>>

CallInitialHits ==
    /\ \E self \in DOMAIN StructureType :
          /\ call' = [fn |-> "initial_hits", self |-> self]
          /\ ret' = [initial_hits |-> initial_hits(self)]
    /\ UNCHANGED <<pipevars, jsvars, scanvars>>

CallBoost ==
    /\ \E self \in DOMAIN ResourceType :
          /\ call' = [fn |-> "boost", self |-> self]
          /\ ret' = [boost |-> boost(self)]
    /\ UNCHANGED <<pipevars, jsvars, scanvars>>

CallSerialize ==
    /\ \E value \in MarketResourceTypes :
          /\ call' = [fn |-> "serialize", value |-> value]
          /\ ret' = [serialize |-> serialize(value)]
    /\ UNCHANGED <<pipevars, jsvars, scanvars>>

\* An integer from anywhere is deserialized.
CallDeserialize ==
    /\ \E resource \in WireValues :
          /\ call' = [fn |-> "deserialize", resource |-> resource, written |-> None]
          /\ ret' = [deserialize |-> deserialize(resource)]
    /\ UNCHANGED <<pipevars, jsvars, scanvars>>

\* The integer just written by serialize is deserialized.
ReadBack ==
    /\ call.fn = "serialize"
    /\ call' = [fn |-> "deserialize", resource |-> ret.serialize, written |-> call.value]
    /\ ret' = [deserialize |-> deserialize(ret.serialize)]
    /\ UNCHANGED <<pipevars, jsvars, scanvars>>

NextTypes ==
    \/ CallConstructionCost
    \/ CallControllerStructures
    \/ CallInitialHits
    \/ CallBoost
    \/ CallSerialize
    \/ CallDeserialize
    \/ ReadBack

SpecTypes == InitTypes /\ [][NextTypes]_vars

\* ------------------------------------------------------------------------
\* The scan on arbitrary directories

InitScan ==
    /\ scan_dir \in Directories
    /\ scan_order = <<>>
    /\ scan_out = None
    /\ PipeIdle(EmptyFs)
    /\ JsIdle
    /\ TypesIdle

RunScan ==
    /\ scan_out = None
    /\ \E order \in Orders(scan_dir) :
          /\ scan_order' = order
          /\ scan_out' = scan(order)
    /\ UNCHANGED <<scan_dir, pipevars, jsvars, typevars>>

NextScan == RunScan

SpecScan == InitScan /\ [][NextScan]_vars

\* ------------------------------------------------------------------------
\* Properties of the artifact scan (SpecScan)

WithExt(names, ext) ==
    {n \in names : extension(n) = [kind |-> "Some", ext |-> ext]}

NumWasm == Cardinality(WithExt(scan_dir, ExtWasm))
NumJs == Cardinality(WithExt(scan_dir, ExtJs))

ScanSucceedsIffOneEach ==
    /\ (scan_out.kind = "Ok") <=> (NumWasm = 1 /\ NumJs = 1)
    /\ scan_out.kind = "Ok" =>
          /\ WithExt(scan_dir, ExtWasm) = {scan_out.wasm_file.name}
          /\ WithExt(scan_dir, ExtJs) = {scan_out.generated_js.name}
          /\ scan_out.wasm_file.dir = target_dir
          /\ scan_out.generated_js.dir = target_dir

\* C2 as stated: the scan succeeds exactly when the directory holds one
\* wasm and one js entry; every category with no entry is reported by a
\* missing-artifact error naming it, and every category with two or more
\* entries by an ambiguous-artifact error naming it, each with the directory.
C2_ScanCardinality_AsStated ==
    scan_out # None =>
        /\ ScanSucceedsIffOneEach
        /\ NumWasm = 0 => scan_out = ScanError("no files found", "wasm")
        /\ NumJs = 0 => scan_out = ScanError("no files found", "js")
        /\ NumWasm >= 2 => scan_out = ScanError("multiple files found", "wasm")
        /\ NumJs >= 2 => scan_out = ScanError("multiple files found", "js")

\* C2 amended: the scan succeeds exactly when the directory holds one wasm
\* and one js entry. When some category has two or more entries it fails
\* with the ambiguous-artifact error, naming a category that has two or
\* more entries; otherwise it fails with the missing-artifact error naming
\* wasm when there is no wasm entry, and naming js when there is one wasm
\* entry and no js entry. Every error names the directory.
C2_ScanCardinality ==
    scan_out # None =>
        /\ ScanSucceedsIffOneEach
        /\ (NumWasm >= 2 \/ NumJs >= 2) =>
              \/ NumWasm >= 2 /\ scan_out = ScanError("multiple files found", "wasm")
              \/ NumJs >= 2 /\ scan_out = ScanError("multiple files found", "js")
        /\ (NumWasm = 0 /\ NumJs <= 1) => scan_out = ScanError("no files found", "wasm")
        /\ (NumWasm = 1 /\ NumJs = 0) => scan_out = ScanError("no files found", "js")

\* A directory with two wasm entries and no js entry was scanned and the
\* ambiguous wasm files were reported.
C2_Witness ==
    /\ scan_out # None
    /\ NumWasm >= 2
    /\ NumJs = 0
    /\ scan_out = ScanError("multiple files found", "wasm")

\* ------------------------------------------------------------------------
\* Properties of process_js (SpecJs)

BothMatch(input) == prefix_match(input) # None /\ suffix_match(input) # None

Ordered(input) == prefix_match(input).end <= suffix_match(input).start

\* The text between the end of the prefix match and the start of the
\* suffix match.
Payload(input) == initialize_function(input, prefix_match(input), suffix_match(input))

UnexpectedStructure(file_name) ==
    [kind |-> "Err", error |-> "unexpected JS prefix", file |-> file_name]

MissingEntryPoint ==
    [kind |-> "Err", error |-> "does not include a '__initialize' function"]

\* C3: when both patterns match but the prefix match ends after the suffix
\* match begins, process_js returns the unexpected-structure error; it never
\* panics.
C3_MatchOrderingValidated ==
    js_out # None =>
        /\ js_out.kind # "Panic"
        /\ (BothMatch(js_input) /\ ~Ordered(js_input)) =>
              js_out = UnexpectedStructure(JsFile)

\* C4: a payload without the __initialize marker makes process_js fail with
\* the missing-entry-point error, so no assembled script has a payload
\* without the marker.
C4_MarkerRequiredInPayload ==
    (js_out # None /\ BothMatch(js_input) /\ Ordered(js_input)
       /\ ~Contains(Payload(js_input), InitializeMarker)) =>
        js_out = MissingEntryPoint

EdgesNotWhitespace(ins) ==
    /\ ins # <<>>
    /\ ins[1] \notin Whitespace
    /\ ins[Len(ins)] \notin Whitespace

RoundTrips ==
    /\ js_out.kind = "Ok"
    /\ BothMatch(js_input)
    /\ Ordered(js_input)
    /\ Payload(js_input) = js_gen.ins

\* C5 as stated: for every text generated from the templates around an
\* inserted text, both patterns match and the extracted payload is exactly
\* the inserted text.
C5_RoundTrip_AsStated ==
    (js_out # None /\ js_gen.alt = NoAlt) => RoundTrips

\* C5 amended: for every text generated from the templates around an
\* inserted text both patterns match; when the inserted text begins and
\* ends with a non-whitespace character, the extracted payload is exactly
\* the inserted text.
C5_RoundTrip ==
    (js_out # None /\ js_gen.alt = NoAlt) =>
        /\ BothMatch(js_input)
        /\ EdgesNotWhitespace(js_gen.ins) => RoundTrips

\* A generated text with empty placeholders and replaced whitespace around
\* an inserted function was processed.
C5_Witness ==
    /\ js_out.kind = "Ok"
    /\ js_gen.alt = NoAlt
    /\ js_gen.ins = InitializeFn
    /\ js_gen.idLen = 0
    /\ js_gen.wsEdge.prefix > 0
    /\ js_gen.wsEdge.suffix > 0

LiteralAltered == js_gen.alt # NoAlt /\ js_gen.alt.i > 0

\* The last literal run of the prefix template: the brace that opens the
\* factory function, between two whitespace runs.
PrefixLastLit == Max({k \in DOMAIN PrefixRuns : PrefixRuns[k].kind = "lit"})

\* The first character of a text that is not whitespace ("" when none).
FirstNonWs(t) ==
    LET at == {i \in 1..Len(t) : t[i] \notin Whitespace}
    IN  IF at = {} THEN "" ELSE t[Min(at)]

\* The alteration turned the brace that ends the prefix template into
\* whitespace and the inserted text begins, after its whitespace, with a
\* brace: the altered text is the template around the rest of the inserted
\* text.
RestoredByInserted(g) ==
    /\ g.alt.side = "prefix"
    /\ g.alt.k = PrefixLastLit
    /\ PrefixRuns[PrefixLastLit].s = <<"{">>
    /\ g.alt.c \in Whitespace
    /\ FirstNonWs(g.ins) = "{"

\* A placeholder of the generated text holds the empty string, or one
\* character that is not identifier-safe.
EmptyPlaceholder == js_gen.alt = NoAlt /\ js_gen.idLen = 0

BadPlaceholder == js_gen.alt # NoAlt /\ js_gen.alt.i = 0

\* C11: the placeholder stands for one or more identifier-safe characters:
\* a text whose placeholders hold the empty string does not match, and a
\* text with a placeholder holding a character that is not identifier-safe
\* does not match.
C11_PlaceholderOneOrMore ==
    (js_out # None /\ (EmptyPlaceholder \/ BadPlaceholder)) =>
        /\ ~BothMatch(js_input)
        /\ js_out = UnexpectedStructure(JsFile)

\* ------------------------------------------------------------------------
\* Properties of the pipeline (Spec)

ReleaseNames == entries(files, target_dir)

OnePair ==
    /\ Cardinality(WithExt(ReleaseNames, ExtWasm)) = 1
    /\ Cardinality(WithExt(ReleaseNames, ExtJs)) = 1

\* check/build returned an error.
Failed == pc = "done" /\ result.kind = "Err"

Succeeded == pc = "done" /\ mode = "build" /\ result.kind = "Ok"

\* C1: a run that ends in an error has created or modified no output file.
C1_AllOrNothing ==
    Failed => Outputs(files) = Outputs(before)

CompiledIsLocatedWasm ==
    /\ Cardinality(WithExt(ReleaseNames, ExtWasm)) = 1
    /\ \A n \in WithExt(ReleaseNames, ExtWasm) :
          files[Join(out_dir, CompiledWasm)] = files[Join(target_dir, n)]

\* C7 as stated: after a successful build compiled.wasm equals the located
\* wasm file and main.js is the extracted payload followed by
\* SCREEPS_JS_INITIALIZE_CALL.
C7_Outputs_AsStated ==
    Succeeded =>
        /\ CompiledIsLocatedWasm
        /\ files[Join(out_dir, MainJs)] =
              Payload(files[generated_js]) \o SCREEPS_JS_INITIALIZE_CALL

\* C7 amended: after a successful build compiled.wasm equals the located
\* wasm file and main.js is the extracted payload, a newline, and then
\* SCREEPS_JS_INITIALIZE_CALL; nothing of the previous contents remains.
C7_Outputs ==
    Succeeded =>
        /\ CompiledIsLocatedWasm
        /\ files[Join(out_dir, MainJs)] =
              Payload(files[generated_js]) \o <<"\n">> \o SCREEPS_JS_INITIALIZE_CALL

\* A build succeeded over stale outputs.
C7_Witness ==
    /\ Succeeded
    /\ Outputs(before) = StaleOutputs
    /\ Outputs(files) # StaleOutputs

\* C8: a build that repeats the previous build on unchanged inputs succeeds
\* exactly if that one did and leaves the outputs as that one left them.
C8_Idempotent ==
    (pc = "done" /\ mode = "build" /\ same) =>
        /\ (result.kind = "Ok") = prev.ok
        /\ Outputs(files) = Outputs(before)

\* A successful build was repeated on unchanged inputs.
C8_Witness ==
    /\ Succeeded
    /\ same
    /\ prev.ok

NonZeroExit == cargo_success.kind = "Exited" /\ cargo_success.code # 0

\* The file system is what the toolchain made of the one the run started
\* on: nothing but the toolchain wrote.
OnlyToolchainWrote == \E e \in Emissions \cup {Keep} : files = Emit(before, e)

\* C9: after a non-zero exit check/build has returned the error carrying
\* the status, the toolchain was invoked once, the release directory was
\* not scanned, and no later stage wrote anything: the outputs are as before
\* the run and the file system is as the toolchain left it.
C9_NonZeroExitIsFatal ==
    NonZeroExit =>
        /\ pc = "done"
        /\ result = [kind |-> "Err", error |-> "exited with a non-zero exit code",
                     command |-> CommandOf(mode), status |-> cargo_success.code]
        /\ invocations = 1
        /\ scans = 0
        /\ wasm_file = None
        /\ generated_js = None
        /\ Outputs(files) = Outputs(before)
        /\ OnlyToolchainWrote

\* A build ended after the toolchain rewrote the release directory and
\* then exited with status 101.
C9_Witness ==
    /\ pc = "done"
    /\ mode = "build"
    /\ cargo_success = [kind |-> "Exited", code |-> 101]
    /\ OnePair
    /\ files # before

\* A build has returned after the toolchain exited with status 0.
BuildEnded ==
    /\ pc = "done"
    /\ mode = "build"
    /\ cargo_success = [kind |-> "Exited", code |-> 0]

\* The errors of the scan: a category missing or ambiguous in the release
\* directory, or the io error of read_dir or of one of its entries.
LocatorErrors ==
    {ScanError(what, category) :
        what \in {"multiple files found", "no files found"}, category \in {"wasm", "js"}}

ScanIoErrors == {IoError("read_dir"), IoError("read_dir entry")}

Readable == is_dir(files, target_dir)

\* The release directory was enumerated and does not hold exactly one wasm
\* and one js file.
ScanFailed ==
    /\ BuildEnded
    /\ Readable
    /\ ~OnePair
    /\ result \notin ScanIoErrors

\* C10: when the release directory does not hold exactly one wasm and one
\* js file the build returns the scan's error for a missing or ambiguous
\* category, naming the directory (the ambiguous wasm files for two wasm
\* files beside at most one js file, the missing wasm file when there is
\* none beside at most one js file, the missing js file when there is none
\* beside one wasm file). Whenever the scan fails, also with an io error of
\* read_dir (as on a missing release directory), the outputs are as they
\* were before the run.
C10_ScanFailureWritesNothing ==
    /\ ScanFailed =>
        /\ result \in LocatorErrors
        /\ (Cardinality(WithExt(ReleaseNames, ExtWasm)) >= 2
              /\ Cardinality(WithExt(ReleaseNames, ExtJs)) <= 1) =>
              result = ScanError("multiple files found", "wasm")
        /\ (Cardinality(WithExt(ReleaseNames, ExtWasm)) = 0
              /\ Cardinality(WithExt(ReleaseNames, ExtJs)) <= 1) =>
              result = ScanError("no files found", "wasm")
        /\ (Cardinality(WithExt(ReleaseNames, ExtWasm)) = 1
              /\ Cardinality(WithExt(ReleaseNames, ExtJs)) = 0) =>
              result = ScanError("no files found", "js")
    /\ (BuildEnded /\ ~Readable) => result = IoError("read_dir")
    /\ (BuildEnded /\ result \in LocatorErrors \cup ScanIoErrors) =>
        /\ scans = 1
        /\ wasm_file = None
        /\ generated_js = None
        /\ Outputs(files) = Outputs(before)

\* A build over two wasm files failed although outputs existed already.
C10_Witness ==
    /\ ScanFailed
    /\ Cardinality(WithExt(ReleaseNames, ExtWasm)) = 2
    /\ result = ScanError("multiple files found", "wasm")
    /\ Outputs(before) = StaleOutputs
    /\ Outputs(files) = StaleOutputs

SpawnFailed == cargo_success.kind = "SpawnFailed"

\* C13: when the toolchain cannot be started check/build has returned an
\* error that names the command and is not the non-zero-exit error, the
\* release directory was not scanned and no file was written.
C13_SpawnErrorNamesCommand ==
    SpawnFailed =>
        /\ pc = "done"
        /\ result.kind = "Err"
        /\ result.error # "exited with a non-zero exit code"
        /\ "command" \in DOMAIN result
        /\ result.command = CommandOf(mode)
        /\ scans = 0
        /\ files = before

\* C15 as stated: check invokes the toolchain exactly once, returns Ok
\* exactly when the exit status is zero, never scans the release directory,
\* and leaves target/compiled.wasm and target/main.js as they were, in
\* every outcome.
C15_CheckIsEffectFree_AsStated ==
    mode = "check" =>
        /\ scans = 0
        /\ Outputs(files) = Outputs(before)
        /\ (pc = "done") =>
              /\ invocations = 1
              /\ (result.kind = "Ok") <=> (cargo_success = [kind |-> "Exited", code |-> 0])

\* C15 amended: check starts the toolchain at most once: exactly once when
\* the program can be started, and not at all when it cannot, in which case
\* check fails. It returns Ok exactly when a process ran and its exit status
\* is zero, never scans the release directory, and leaves
\* target/compiled.wasm and target/main.js as they were, however it ends.
C15_CheckIsEffectFree ==
    mode = "check" =>
        /\ scans = 0
        /\ Outputs(files) = Outputs(before)
        /\ invocations <= 1
        /\ (pc = "done") =>
              /\ invocations = IF cargo_success.kind = "SpawnFailed" THEN 0 ELSE 1
              /\ (result.kind = "Ok") <=> (cargo_success = [kind |-> "Exited", code |-> 0])
              /\ OnlyToolchainWrote

\* A check ended well over existing outputs while the toolchain rewrote the
\* release directory.
C15_Witness ==
    /\ pc = "done"
    /\ mode = "check"
    /\ result.kind = "Ok"
    /\ DOMAIN Outputs(files) = OutputPaths
    /\ files # before

\* ------------------------------------------------------------------------
\* Further properties of the scan (SpecScan)

Recognised(file_name) ==
    extension(file_name) \in {[kind |-> "Some", ext |-> ExtWasm],
                              [kind |-> "Some", ext |-> ExtJs]}

Unrecognised(names) == {n \in names : ~Recognised(n)}

\* The enumeration with the entries of unrecognised extension removed.
WithoutUnrecognised(order) == SelectSeq(order, Recognised)

\* C12: entries whose extension is neither wasm nor js, or that have no
\* extension, do not change the result of the scan: the scan of an
\* enumeration returns what the scan of the same enumeration without these
\* entries returns (the same paths, or the same error kind and category).
C12_UnrecognisedIgnored ==
    scan_out # None => scan_out = scan(WithoutUnrecognised(scan_order))

\* A directory with three ignored entries, one of them without extension,
\* was scanned.
C12_Witness ==
    /\ scan_out # None
    /\ Cardinality(Unrecognised(scan_dir)) >= 3
    /\ BuildDir \in scan_dir
    /\ Len(WithoutUnrecognised(scan_order)) < Len(scan_order)

\* C14: the outcome of the scan (both paths, or the error with the category
\* it names) is the same for every order in which the entries of the
\* directory are enumerated.
C14_ScanDeterministic ==
    scan_out # None => \A order \in Orders(scan_dir) : scan(order) = scan_out

\* ------------------------------------------------------------------------
\* Properties of constants::types (SpecTypes)

\* The Boost variant that stands for the effects of a BOOSTS entry.
BoostVariant(effects) ==
    CASE effects = {"attack"} -> "Attack"
      [] effects = {"harvest"} -> "Harvest"
      [] effects = {"capacity"} -> "Carry"
      [] effects = {"rangedAttack", "rangedMassAttack"} -> "RangedAttack"
      [] effects = {"build", "repair"} -> "BuildAndRepair"
      [] effects = {"heal", "rangedHeal"} -> "Heal"
      [] effects = {"dismantle"} -> "Dismantle"
      [] effects = {"fatigue"} -> "Move"
      [] effects = {"upgradeController"} -> "UpgradeController"
      [] effects = {"damage"} -> "Tough"

\* What the quoted table holds for a resource: the entry of its display
\* string, none for a resource without entry.
Quoted(self) ==
    IF display[self] \in DOMAIN BOOSTS
    THEN LET entry == BOOSTS[display[self]]
         IN  Some(Boost(BoostVariant(DOMAIN entry),
                        CHOOSE t \in {entry[k] : k \in DOMAIN entry} : TRUE))
    ELSE None

\* The compound families: base, acid or alkalide, catalyzed.
Families ==
    { <<"UtriumHydride", "UtriumAcid", "CatalyzedUtriumAcid">>,
      <<"UtriumOxide", "UtriumAlkalide", "CatalyzedUtriumAlkalide">>,
      <<"KeaniumHydride", "KeaniumAcid", "CatalyzedKeaniumAcid">>,
      <<"KeaniumOxide", "KeaniumAlkalide", "CatalyzedKeaniumAlkalide">>,
      <<"LemergiumHydride", "LemergiumAcid", "CatalyzedLemergiumAcid">>,
      <<"LemergiumOxide", "LemergiumAlkalide", "CatalyzedLemergiumAlkalide">>,
      <<"ZynthiumHydride", "ZynthiumAcid", "CatalyzedZynthiumAcid">>,
      <<"ZynthiumOxide", "ZynthiumAlkalide", "CatalyzedZynthiumAlkalide">>,
      <<"GhodiumHydride", "GhodiumAcid", "CatalyzedGhodiumAcid">>,
      <<"GhodiumOxide", "GhodiumAlkalide", "CatalyzedGhodiumAlkalide">> }

TiersDiffer(f) ==
    /\ boost(f[1]).v.tenths # boost(f[2]).v.tenths
    /\ boost(f[2]).v.tenths # boost(f[3]).v.tenths
    /\ boost(f[1]).v.tenths # boost(f[3]).v.tenths

\* C16: boost returns for every resource what the quoted BOOSTS table holds
\* for it (effect and multiplier, none for a resource that is no boost
\* compound), and the three tiers of the resource's family have three
\* different multipliers.
C16_BoostAsQuoted ==
    call.fn = "boost" =>
        /\ ret.boost = Quoted(call.self)
        /\ \A f \in Families : (\E i \in 1..3 : f[i] = call.self) => TiersDiffer(f)

\* The *_HITS constant named after each structure type.
OwnHits ==
    [Spawn |-> "SPAWN_HITS", Extension |-> "EXTENSION_HITS", Road |-> "ROAD_HITS",
     Wall |-> "WALL_HITS", Rampart |-> "RAMPART_HITS", KeeperLair |-> "KEEPER_LAIR_HITS",
     Portal |-> "PORTAL_HITS", Controller |-> "CONTROLLER_HITS", Link |-> "LINK_HITS",
     Storage |-> "STORAGE_HITS", Tower |-> "TOWER_HITS", Observer |-> "OBSERVER_HITS",
     PowerBank |-> "POWER_BANK_HITS", PowerSpawn |-> "POWER_SPAWN_HITS",
     Extractor |-> "EXTRACTOR_HITS", Lab |-> "LAB_HITS", Terminal |-> "TERMINAL_HITS",
     Container |-> "CONTAINER_HITS", Nuker |-> "NUKER_HITS", Factory |-> "FACTORY_HITS",
     InvaderCore |-> "INVADER_CORE_HITS"]

\* C17: initial_hits returns none for KeeperLair, Portal and Controller and
\* for every other structure type the constant named after that type.
C17_InitialHitsOwnConstant ==
    call.fn = "initial_hits" =>
        ret.initial_hits =
            IF call.self \in {"KeeperLair", "Portal", "Controller"} THEN None
            ELSE Some(OwnHits[call.self])

Discriminants(enum) == {enum[ty] : ty \in DOMAIN enum}

\* The variant the integer n is the discriminant of, none when there is none.
VariantOf(n) ==
    IF n \in Discriminants(ResourceType)
    THEN Some(Resource(CHOOSE ty \in DOMAIN ResourceType : ResourceType[ty] = n))
    ELSE IF n \in Discriminants(IntershardResourceType)
    THEN Some(IntershardResource(CHOOSE ty \in DOMAIN IntershardResourceType :
                                     IntershardResourceType[ty] = n))
    ELSE None

\* C18: the integer serialize writes for a value deserializes to that value;
\* deserialize accepts exactly the discriminants of ResourceType (1 to 84)
\* and of IntershardResourceType (1001), returns the variant with that
\* discriminant, and returns an invalid-value error for every other integer.
C18_MarketResourceRoundTrip ==
    /\ Discriminants(ResourceType) = 1..84
    /\ Discriminants(IntershardResourceType) = {1001}
    /\ call.fn = "serialize" =>
          /\ ret.serialize \in Discriminants(ResourceType)
                                  \cup Discriminants(IntershardResourceType)
          /\ deserialize(ret.serialize) = Ok(call.value)
    /\ (call.fn = "deserialize" /\ call.written # None) =>
          ret.deserialize = Ok(call.written)
    /\ call.fn = "deserialize" =>
          IF VariantOf(call.resource) # None
          THEN /\ ret.deserialize = Ok(VariantOf(call.resource).v)
               /\ serialize(ret.deserialize.v) = call.resource
          ELSE /\ ret.deserialize.kind = "Err"
               /\ ret.deserialize.error = "invalid value"

\* The subscription token was written and read back.
C18_Witness ==
    /\ call.fn = "deserialize"
    /\ call.written = IntershardResource("SubscriptionToken")
    /\ call.resource = 1001
    /\ ret.deserialize = Ok(call.written)

\* C19: controller_structures never decreases when the level grows, has one
\* value for all levels from 8 on, and is 0 at every level for exactly the
\* structure types that have no construction cost.
C19_ControllerStructuresMonotone ==
    call.fn = "controller_structures" =>
        /\ \A a \in 0..call.current_rcl :
              controller_structures(call.self, a) <= ret.controller_structures
        /\ call.current_rcl >= 8 =>
              ret.controller_structures = controller_structures(call.self, 8)
        /\ (\A l \in Levels : controller_structures(call.self, l) = 0)
              <=> (construction_cost(call.self) = None)

\* The towers of a level above 8 were asked for.
C19_Witness ==
    /\ call.fn = "controller_structures"
    /\ call.self = "Tower"
    /\ call.current_rcl > 8
    /\ ret.controller_structures = 6

====
